---- MODULE Spec2Model ----
(***************************************************************************)
(* State-machine model of the two ETL notebooks of the repository:         *)
(*   - the bitcoin time-series notebook  (src/unnamed/part_000)            *)
(*   - the asset-listing notebook                                          *)
(*     (src/your_jup_notebooks/etl_pipeline_crypto_mkt.ipynb)              *)
(* A run is one top-to-bottom execution of the notebook's code cells in a  *)
(* kernel; an exception that escapes a cell stops the run.  The kernel's   *)
(* globals survive from one run to the next unless the kernel is           *)
(* restarted (the recorded execution counts start at 165 and 92).          *)
(*                                                                         *)
(* Numbers with decimals are fixed-point integers in thousandths:          *)
(* 16708523 stands for 16708.523.                                          *)
(***************************************************************************)
EXTENDS Integers, Sequences, FiniteSets, TLC

\* ---------------------------------------------------------------- bounds
MaxRecords == 2
MaxRuns == 2

\* --------------------------------------------------------------- the state
VARIABLES
  pipeline,           \* which notebook runs in this kernel
  pc,                 \* the cell about to run, or "idle" / "done" / "failed"
  runs,               \* runs started so far
  url_range,          \* kernel globals start_unix_ms, end_unix_ms (bitcoin_url)
  raw_data_json,      \* kernel global
  cleaned_data_df,    \* kernel global
  db_engine,          \* kernel global: the SQLAlchemy engine and its pool
  to_validate,        \* kernel global
  env,                \* os.environ of the kernel process
  csv_file,           \* the CSV file on disk
  db_table,           \* the target table of the database
  http_status,        \* status of this run's GET (0: none yet)
  transform_outcome,  \* how this run's transform call ended
  error,              \* the exception that stopped this run
  io,                 \* the external calls of this run, in order
  loads               \* successful loads into the table so far

vars == << pipeline, pc, runs, url_range, raw_data_json, cleaned_data_df, db_engine,
           to_validate, env, csv_file, db_table, http_status, transform_outcome,
           error, io, loads >>

\* ------------------------------------------------------------ cell values
Cell(k, v, s) == [k |-> k, v |-> v, s |-> s]
None == Cell("null", 0, "")
StrV(s) == Cell("str", 0, s)
IntV(n) == Cell("int", n, "")
FltV(n) == Cell("float", n, "")
NaN == Cell("nan", 0, "")
DateV(d) == Cell("date", 0, d)
NaT == Cell("nat", 0, "")

\* float(s) of the strings used as inputs: defined or ValueError
FloatStrings == {"16708.523", "16682.714", "2.346", "-0.336", "21000", "1", "2"}
FloatOf(s) ==
  CASE s = "16708.523" -> 16708523
    [] s = "16682.714" -> 16682714
    [] s = "2.346" -> 2346
    [] s = "-0.336" -> -336
    [] s = "21000" -> 21000000
    [] s = "1" -> 1000
    [] s = "2" -> 2000
    [] OTHER -> 0

\* int(s): defined only for integer literals
IntStrings == {"1", "2", "21000"}
IntOf(s) ==
  CASE s = "1" -> 1
    [] s = "2" -> 2
    [] s = "21000" -> 21000
    [] OTHER -> 0

\* pd.to_datetime(s).date() of the ISO-8601 strings used as inputs
IsoStrings == {"2023-01-02T00:00:00.000Z", "2023-01-03T12:30:00.000Z"}
IsoDateOf(s) ==
  CASE s = "2023-01-02T00:00:00.000Z" -> "2023-01-02"
    [] s = "2023-01-03T12:30:00.000Z" -> "2023-01-03"
    [] OTHER -> ""

\* ------------------------------------------------------------ exceptions
NoCol == ""
NoRow == -1
NoStatus == 0
Exc(type) == [type |-> type, status |-> NoStatus, col |-> NoCol, row |-> NoRow, stage |-> ""]
NoExc == Exc("")

\* --------------------------------------------------------------- tables
NoTable == [columns |-> <<>>, rows |-> <<>>]
PyUndefined == [tag |-> "undefined", df |-> NoTable]
PyNone == [tag |-> "None", df |-> NoTable]
PyDf(t) == [tag |-> "df", df |-> t]

\* how a call ends: a returned value or a raised exception; failed names the
\* step of transform in which the first failure happened ("" when none),
\* steps lists the steps of transform the call executed, in order
Ret(v) == [raised |-> FALSE, exc |-> NoExc, val |-> v, failed |-> "", steps |-> <<>>]
Raise(e) == [raised |-> TRUE, exc |-> e, val |-> PyUndefined, failed |-> "", steps |-> <<>>]
At(step, r) == IF r.raised THEN [r EXCEPT !.failed = step] ELSE r
Ran(steps, r) == [r EXCEPT !.steps = steps \o @]

Range(f) == {f[i] : i \in DOMAIN f}
HasColumn(t, c) == c \in Range(t.columns)
Column(t, c) == [i \in DOMAIN t.rows |-> t.rows[i][c]]
SetColumn(t, c, cells) ==
  [t EXCEPT !.rows = [i \in DOMAIN t.rows |-> [t.rows[i] EXCEPT ![c] = cells[i]]]]

\* ---------------------------------------------------------- normalization
\* A RawRecord is the sequence of its (key, value) pairs in document order.
Field(k, v) == [key |-> k, val |-> v]
Keys(rec) == [i \in DOMAIN rec |-> rec[i].key]
HasKey(rec, k) == \E i \in DOMAIN rec : rec[i].key = k
ValueOf(rec, k) == rec[CHOOSE i \in DOMAIN rec : rec[i].key = k].val

RECURSIVE AppendNew(_, _)
AppendNew(cols, keys) ==
  IF keys = <<>> THEN cols
  ELSE AppendNew(IF Head(keys) \in Range(cols) THEN cols ELSE Append(cols, Head(keys)),
                 Tail(keys))

\* a schema taken from the first record alone
UnionColumns_first(recs, acc) ==
  IF recs = <<>> THEN acc ELSE AppendNew(acc, Keys(Head(recs)))

RECURSIVE UnionColumns(_, _)
UnionColumns(recs, acc) ==
  IF recs = <<>> THEN acc
  ELSE UnionColumns(Tail(recs), AppendNew(acc, Keys(Head(recs))))

\* A RawResponse: shape tells what the "data" field of the decoded body is.
RawResponse(shape, recs) == [shape |-> shape, data |-> recs]
NoResponse == RawResponse("absent", <<>>)

\* pd.json_normalize(raw_data_json, record_path="data", sep="."):
\* KeyError without the key, TypeError for a non-list non-null value,
\* an empty frame for null, else one row per record over the union schema.
json_normalize(raw) ==
  CASE raw.shape = "no_data" -> Raise(Exc("KeyError"))
    [] raw.shape = "string_data" -> Raise(Exc("TypeError"))
    [] raw.shape = "null_data" -> Ret(PyDf(NoTable))
    [] OTHER ->
       LET cols == UnionColumns(raw.data, <<>>) IN
       Ret(PyDf([columns |-> cols,
                 rows |-> [i \in DOMAIN raw.data |->
                            [c \in Range(cols) |->
                               IF HasKey(raw.data[i], c) THEN ValueOf(raw.data[i], c)
                               ELSE NaN]]]))

\* ------------------------------------------------------------- coercion
\* astype that lets every string through to float
AstypeFails_lenient(cell, datatype) ==
  datatype = "int" /\ (cell.k \in {"null", "nan"} \/ (cell.k = "str" /\ cell.s \notin IntStrings))

\* Series.astype(datatype), cell by cell
AstypeFails(cell, datatype) ==
  CASE datatype = "float" -> cell.k = "str" /\ cell.s \notin FloatStrings
    [] datatype = "int" -> \/ cell.k \in {"null", "nan"}
                           \/ cell.k = "str" /\ cell.s \notin IntStrings
    [] OTHER -> FALSE

AstypeError(cell) == IF cell.k = "null" THEN Exc("TypeError") ELSE Exc("ValueError")

AstypeCell(cell, datatype) ==
  CASE datatype = "float" ->
         (CASE cell.k = "str" -> FltV(FloatOf(cell.s))
            [] cell.k \in {"null", "nan"} -> NaN
            [] cell.k = "int" -> FltV(cell.v * 1000)
            [] OTHER -> cell)
    [] datatype = "int" ->
         (CASE cell.k = "str" -> IntV(IntOf(cell.s))
            [] cell.k = "float" -> IntV(cell.v \div 1000)
            [] OTHER -> cell)
    [] OTHER -> cell

astype(t, col, datatype) ==
  LET cells == Column(t, col)
      bad == {i \in DOMAIN cells : AstypeFails(cells[i], datatype)}
  IN IF bad # {}
     THEN Raise(AstypeError(cells[CHOOSE i \in bad : \A j \in bad : i <= j]))
     ELSE Ret(PyDf(SetColumn(t, col, [i \in DOMAIN cells |-> AstypeCell(cells[i], datatype)])))

\* a coercion that raises KeyError for a column the table does not have
RECURSIVE convert_cols_strict(_, _)
convert_cols_strict(df, cols_datatypes) ==
  IF cols_datatypes = <<>> THEN Ret(PyDf(df))
  ELSE IF HasColumn(df, Head(cols_datatypes)[1])
       THEN LET r == astype(df, Head(cols_datatypes)[1], Head(cols_datatypes)[2]) IN
            IF r.raised THEN r ELSE convert_cols_strict(r.val.df, Tail(cols_datatypes))
       ELSE Raise(Exc("KeyError"))

\* cols_datatypes is the dict as the sequence of its (column, type) items
RECURSIVE convert_cols_cat_to_num(_, _)
convert_cols_cat_to_num(df, cols_datatypes) ==
  IF cols_datatypes = <<>> THEN Ret(PyDf(df))
  ELSE LET col == Head(cols_datatypes)[1]
           datatype == Head(cols_datatypes)[2]
       IN IF HasColumn(df, col)
          THEN LET r == astype(df, col, datatype) IN
               IF r.raised THEN r
               ELSE convert_cols_cat_to_num(r.val.df, Tail(cols_datatypes))
          ELSE convert_cols_cat_to_num(df, Tail(cols_datatypes))

\* ------------------------------------------- time-series helper functions
\* pd.to_datetime(x).date() of one cell (date cells of a response are
\* strings or null)
DateFails(cell) == cell.k = "str" /\ cell.s \notin IsoStrings
DateCell(cell) ==
  CASE cell.k = "str" -> DateV(IsoDateOf(cell.s))
    [] cell.k \in {"null", "nan"} -> NaT
    [] OTHER -> cell

\* a date helper that hands the table back as it is when the conversion fails
convert_iso_date_keep(df, col_name) ==
  IF df.tag # "df" \/ ~HasColumn(df.df, col_name) THEN df
  ELSE LET cells == Column(df.df, col_name) IN
       IF \E i \in DOMAIN cells : DateFails(cells[i]) THEN df
       ELSE PyDf(SetColumn(df.df, col_name, [i \in DOMAIN cells |-> DateCell(cells[i])]))

\* try: df[col_name] = pd.to_datetime(df[col_name]).dt.date; return df
\* except Exception: print(...); return None
convert_iso_date_to_datetime(df, col_name) ==
  IF df.tag # "df" \/ ~HasColumn(df.df, col_name) THEN PyNone
  ELSE LET cells == Column(df.df, col_name) IN
       IF \E i \in DOMAIN cells : DateFails(cells[i]) THEN PyNone
       ELSE PyDf(SetColumn(df.df, col_name, [i \in DOMAIN cells |-> DateCell(cells[i])]))

DropFrom(cols, c) == SelectSeq(cols, LAMBDA x : x # c)
DropColumn(t, c) ==
  [columns |-> DropFrom(t.columns, c),
   rows |-> [i \in DOMAIN t.rows |->
               [x \in Range(DropFrom(t.columns, c)) |-> t.rows[i][x]]]]

RECURSIVE DropAll(_, _)
DropAll(t, cols) == IF cols = <<>> THEN t ELSE DropAll(DropColumn(t, Head(cols)), Tail(cols))

\* drop_columns that passes over a column the table does not have
drop_columns_ignore(df, cols_to_drop) ==
  IF df.tag # "df" THEN PyNone ELSE PyDf(DropAll(df.df, cols_to_drop))

\* try: df.drop(columns=cols_to_drop, inplace=True); return df
\* except Exception: print(...); return None
drop_columns(df, cols_to_drop) ==
  IF df.tag # "df" \/ \E i \in DOMAIN cols_to_drop : ~HasColumn(df.df, cols_to_drop[i])
  THEN PyNone
  ELSE PyDf(DropAll(df.df, cols_to_drop))

\* ------------------------------------------------------------- rounding
\* a rounding that leaves the value as it is
Round2_none(v) == v
\* round to two decimals (a value is in thousandths), ties to even
Round2(v) ==
  LET q == v \div 10
      r == v % 10
  IN IF r < 5 THEN q * 10
     ELSE IF r > 5 THEN (q + 1) * 10
     ELSE IF q % 2 = 0 THEN q * 10 ELSE (q + 1) * 10

RoundFails(cell) == cell.k \in {"str", "null", "date"}
RoundCell(cell) == IF cell.k = "float" THEN FltV(Round2(cell.v)) ELSE cell

\* a rounding applied to every column of the table
RoundAll_every(t, cols) ==
  [t EXCEPT !.rows = [i \in DOMAIN t.rows |->
                        [c \in DOMAIN t.rows[i] |-> RoundCell(t.rows[i][c])]]]

RECURSIVE RoundAll(_, _)
RoundAll(t, cols) ==
  IF cols = <<>> THEN t
  ELSE LET cells == Column(t, Head(cols)) IN
       RoundAll(SetColumn(t, Head(cols), [i \in DOMAIN cells |-> RoundCell(cells[i])]),
                Tail(cols))

\* df[cols_to_round] = df[cols_to_round].apply(lambda x: x.round(2))
RoundColumns(t, cols_to_round) ==
  IF \E i \in DOMAIN cols_to_round : ~HasColumn(t, cols_to_round[i])
  THEN Raise(Exc("KeyError"))
  ELSE IF \E i \in DOMAIN cols_to_round :
            \E j \in DOMAIN t.rows : RoundFails(t.rows[j][cols_to_round[i]])
  THEN Raise(Exc("TypeError"))
  ELSE Ret(PyDf(RoundAll(t, cols_to_round)))

\* try: <RoundColumns>; return df   except Exception: print(...); return None
round_to_two_decimal_places(df, cols_to_round) ==
  IF df.tag # "df" THEN PyNone
  ELSE LET r == RoundColumns(df.df, cols_to_round) IN
       IF r.raised THEN PyNone ELSE r.val

\* ------------------------------------------------------------ transform
\* the cleaning steps with the time column dropped before the date step
clean_ts_prune_first(t, cols_datatypes, cols_to_round) ==
  LET conv == convert_cols_cat_to_num(t, cols_datatypes) IN
  IF conv.raised THEN Ran(<<"coercion">>, At("coercion", conv))
  ELSE LET pruned == drop_columns(conv.val, <<"time">>)
           dated == convert_iso_date_to_datetime(pruned, "date")
           rounded == round_to_two_decimal_places(dated, cols_to_round)
       IN Ran(<<"coercion", "prune", "date", "round">>,
              [Ret(rounded) EXCEPT !.failed =
                 IF pruned = PyNone THEN "prune"
                 ELSE IF dated = PyNone THEN "date"
                 ELSE IF rounded = PyNone THEN "round" ELSE ""])

\* the cleaning steps of the time-series transform, on a normalized table;
\* a helper that returned None does not stop the helpers after it
clean_ts(t, cols_datatypes, cols_to_round) ==
  LET conv == convert_cols_cat_to_num(t, cols_datatypes) IN
  IF conv.raised THEN Ran(<<"coercion">>, At("coercion", conv))
  ELSE LET dated == convert_iso_date_to_datetime(conv.val, "date")
           pruned == drop_columns(dated, <<"time">>)
           rounded == round_to_two_decimal_places(pruned, cols_to_round)
       IN Ran(<<"coercion", "date", "prune", "round">>,
              [Ret(rounded) EXCEPT !.failed =
                 IF dated = PyNone THEN "date"
                 ELSE IF pruned = PyNone THEN "prune"
                 ELSE IF rounded = PyNone THEN "round" ELSE ""])

\* transform of the time-series notebook
transform_ts(raw, cols_datatypes, cols_to_round) ==
  LET norm == json_normalize(raw) IN
  IF norm.raised THEN Ran(<<"normalize">>, At("normalize", norm))
  ELSE Ran(<<"normalize">>, clean_ts(norm.val.df, cols_datatypes, cols_to_round))

\* Series.fillna(value) on one column; KeyError when the column is absent
\* a fillna that leaves every cell as it is
FillCell_keep(cell, value) == cell
FillCell(cell, value) == IF cell.k \in {"null", "nan", "nat"} THEN value ELSE cell
fillna(t, col, value) ==
  IF ~HasColumn(t, col) THEN Raise(Exc("KeyError"))
  ELSE LET cells == Column(t, col) IN
       Ret(PyDf(SetColumn(t, col, [i \in DOMAIN cells |-> FillCell(cells[i], value)])))

\* the cleaning steps of the asset-listing transform, on a normalized table
clean_assets(t, cols_datatypes, cols_to_round) ==
  LET conv == convert_cols_cat_to_num(t, cols_datatypes) IN
  IF conv.raised THEN Ran(<<"coercion">>, At("coercion", conv))
  ELSE LET f1 == fillna(conv.val.df, "maxSupply", FltV(0)) IN
       IF f1.raised THEN Ran(<<"coercion", "fillna">>, At("fillna", f1))
       ELSE LET f2 == fillna(f1.val.df, "explorer", StrV("not available")) IN
            IF f2.raised THEN Ran(<<"coercion", "fillna">>, At("fillna", f2))
            ELSE Ran(<<"coercion", "fillna", "round">>,
                     At("round", RoundColumns(f2.val.df, cols_to_round)))

\* transform of the asset-listing notebook
transform_assets(raw, cols_datatypes, cols_to_round) ==
  LET norm == json_normalize(raw) IN
  IF norm.raised THEN Ran(<<"normalize">>, At("normalize", norm))
  ELSE Ran(<<"normalize">>, clean_assets(norm.val.df, cols_datatypes, cols_to_round))

\* ---------------------------------------------------------------- extract
\* What requests.get gives back: a status code and a decoded body.
Response(code, body) == [status_code |-> code, body |-> body]
NotJson == RawResponse("not_json", <<>>)

PyRaw(raw) == [tag |-> "dict", raw |-> raw]
RawUndefined == [tag |-> "undefined", raw |-> NoResponse]

\* extract with the non-200 branch handing back the kernel's earlier value
extract_stale(r) ==
  IF r.status_code = 200
  THEN IF r.body = NotJson
       THEN [raised |-> TRUE, exc |-> Exc("JSONDecodeError"), val |-> RawUndefined]
       ELSE [raised |-> FALSE, exc |-> NoExc, val |-> PyRaw(r.body)]
  ELSE [raised |-> FALSE, exc |-> NoExc, val |-> raw_data_json]

\* extract(api_get_request_url): the local raw_data_json is bound only on
\* status 200, so the final return raises UnboundLocalError otherwise.
extract(r) ==
  IF r.status_code = 200
  THEN IF r.body = NotJson
       THEN [raised |-> TRUE, exc |-> Exc("JSONDecodeError"), val |-> RawUndefined]
       ELSE [raised |-> FALSE, exc |-> NoExc, val |-> PyRaw(r.body)]
  ELSE [raised |-> TRUE, exc |-> Exc("UnboundLocalError"), val |-> RawUndefined]

\* ------------------------------------------------- date-range parameters
DateStrings == {"2023-01-01 12:00:00", "2024-05-31 12:00:00"}
\* datetime.strptime(s, '%Y-%m-%d %H:%M:%S').timestamp(), in seconds
EpochOf(s) ==
  CASE s = "2023-01-01 12:00:00" -> 1672574400
    [] s = "2024-05-31 12:00:00" -> 1717156800
    [] OTHER -> 0

NoRange == [defined |-> FALSE, start |-> 0, end |-> 0]
\* returns the (start, end) pair, or None after a ValueError
convert_to_unix_milliseconds(start_date_str, end_date_str) ==
  IF start_date_str \in DateStrings /\ end_date_str \in DateStrings
  THEN [defined |-> TRUE, start |-> EpochOf(start_date_str), end |-> EpochOf(end_date_str)]
  ELSE NoRange

\* ------------------------------------------------------------ table store
SqlNull == Cell("sqlnull", 0, "")
IsNull(cell) == cell.k \in {"null", "nan", "nat"}

\* column type pandas' to_sql derives from the column's values
SqlType(t, c) ==
  LET kinds == {t.rows[i][c].k : i \in DOMAIN t.rows} IN
  IF kinds # {} /\ kinds \subseteq {"float", "nan"} THEN "FLOAT(53)"
  ELSE IF kinds # {} /\ kinds \subseteq {"int"} THEN "BIGINT"
  ELSE IF "date" \in kinds /\ kinds \subseteq {"date", "nat", "null"} THEN "DATE"
  ELSE IF kinds # {} /\ kinds \subseteq {"nat"} THEN "TIMESTAMP"
  ELSE "TEXT"

ToSqlCell(cell) == IF IsNull(cell) THEN SqlNull ELSE cell
FromSqlCell(v, sqltype) ==
  IF v = SqlNull
  THEN (IF sqltype \in {"FLOAT(53)", "BIGINT"} THEN NaN ELSE None)
  ELSE v

NoSqlTable == [exists |-> FALSE, columns |-> <<>>, types |-> <<>>, rows |-> <<>>]
SqlRows(t) == [i \in DOMAIN t.rows |-> [c \in Range(t.columns) |-> ToSqlCell(t.rows[i][c])]]

\* to_sql that leaves an existing table as it is
to_sql_keep(table, t, if_exists) ==
  IF table.exists THEN table
  ELSE [exists |-> TRUE,
        columns |-> t.columns,
        types |-> [i \in DOMAIN t.columns |-> SqlType(t, t.columns[i])],
        rows |-> SqlRows(t)]

\* DataFrame.to_sql(name, con, if_exists, index=False)
to_sql(table, t, if_exists) ==
  IF table.exists /\ if_exists = "append"
  THEN [table EXCEPT !.rows = table.rows \o SqlRows(t)]
  ELSE [exists |-> TRUE,
        columns |-> t.columns,
        types |-> [i \in DOMAIN t.columns |-> SqlType(t, t.columns[i])],
        rows |-> SqlRows(t)]

\* load with if_exists="append"
load_append(table, cleaned) == to_sql(table, cleaned, "append")

\* load(cleaned_data_df, con_engine)
load(table, cleaned) == to_sql(table, cleaned, "replace")

TypeOfColumn(table, c) == table.types[CHOOSE i \in DOMAIN table.columns : table.columns[i] = c]
\* pd.read_sql("SELECT * FROM <table>", con)
read_sql(table) ==
  [columns |-> table.columns,
   rows |-> [i \in DOMAIN table.rows |->
               [c \in Range(table.columns) |->
                  FromSqlCell(table.rows[i][c], TypeOfColumn(table, c))]]]

\* ------------------------------------------------------------- CSV file
NoFile == [exists |-> FALSE, table |-> NoTable]

\* ------------------------------------------------------------ the inputs
\* a record whose JSON object leaves some keys out
Without(rec, keys) == SelectSeq(rec, LAMBDA f : f.key \notin keys)

\* time-series endpoint: three fields per record
TsRecord(price, date) ==
  << Field("priceUsd", price), Field("time", IntV(1672617600)), Field("date", date) >>

TsRecords ==
  { TsRecord(StrV("16708.523"), StrV("2023-01-02T00:00:00.000Z")),
    TsRecord(StrV("2.346"), StrV("2023-01-03T12:30:00.000Z")),
    TsRecord(None, None),
    Without(TsRecord(StrV("-0.336"), StrV("2023-01-03T12:30:00.000Z")), {"time"}),
    Without(TsRecord(None, StrV("2023-01-02T00:00:00.000Z")), {"priceUsd"}),
    TsRecord(StrV("abc"), StrV("2023-01-02T00:00:00.000Z")),
    TsRecord(StrV("16708.523"), StrV("not-a-date")) }

\* asset-listing endpoint: twelve fields per record
AssetRecord(rank, maxSupply, priceUsd, vwap24Hr, explorer) ==
  << Field("id", StrV("bitcoin")), Field("rank", rank), Field("symbol", StrV("BTC")),
     Field("name", StrV("Bitcoin")), Field("supply", StrV("16682.714")),
     Field("maxSupply", maxSupply), Field("marketCapUsd", StrV("16708.523")),
     Field("volumeUsd24Hr", StrV("2.346")), Field("priceUsd", priceUsd),
     Field("changePercent24Hr", StrV("-0.336")), Field("vwap24Hr", vwap24Hr),
     Field("explorer", explorer) >>

AssetRecords ==
  { AssetRecord(StrV("1"), StrV("21000"), StrV("16708.523"), StrV("16682.714"),
                StrV("https://blockchain.info/")),
    AssetRecord(StrV("2"), None, StrV("2.346"), None, None),
    AssetRecord(StrV("abc"), StrV("21000"), StrV("16708.523"), StrV("2.346"), None),
    AssetRecord(None, StrV("21000"), StrV("16708.523"), StrV("2.346"), None),
    Without(AssetRecord(StrV("2"), None, StrV("-0.336"), StrV("2.346"), None),
            {"maxSupply", "explorer"}),
    AssetRecord(StrV("2"), None, StrV("abc"), StrV("2.346"),
                StrV("https://blockchain.info/")) }

Pipelines == {"timeseries", "assets"}
Records(p) == IF p = "timeseries" THEN TsRecords ELSE AssetRecords
SeqsUpTo(S, n) == UNION {[1..k -> S] : k \in 0..n}

\* decoded bodies: a list of records under "data", or a malformed shape
\* ("string_data": the "data" field holds a JSON string)
Bodies(p) ==
  {RawResponse("ok", recs) : recs \in SeqsUpTo(Records(p), MaxRecords)}
    \cup {RawResponse("no_data", <<>>), RawResponse("null_data", <<>>),
          RawResponse("string_data", <<>>)}

\* the bodies a run of the notebook is given: every record alone, one body of
\* two well-formed records, and the malformed ones
GoodPair(p) ==
  IF p = "timeseries"
  THEN << TsRecord(StrV("16708.523"), StrV("2023-01-02T00:00:00.000Z")),
          TsRecord(StrV("2.346"), StrV("2023-01-03T12:30:00.000Z")) >>
  ELSE << AssetRecord(StrV("1"), StrV("21000"), StrV("16708.523"), StrV("16682.714"),
                      StrV("https://blockchain.info/")),
          AssetRecord(StrV("2"), None, StrV("2.346"), None, None) >>

SampleBodies(p) ==
  {RawResponse("ok", <<r>>) : r \in Records(p)}
    \cup {RawResponse("ok", GoodPair(p)), RawResponse("ok", <<>>),
          RawResponse("string_data", <<>>), NotJson}

StatusCodes == {200, 404, 500}
Responses(p) ==
  {Response(200, b) : b \in SampleBodies(p)}
    \cup {Response(c, NotJson) : c \in StatusCodes \ {200}}

\* cols_datatypes and cols_to_round of each notebook
\* a cols_datatypes that names no column
cols_datatypes_empty(p) == <<>>
cols_datatypes(p) ==
  IF p = "timeseries" THEN << <<"priceUsd", "float">> >>
  ELSE << <<"rank", "int">>, <<"supply", "float">>, <<"maxSupply", "float">>,
          <<"marketCapUsd", "float">>, <<"volumeUsd24Hr", "float">>,
          <<"priceUsd", "float">>, <<"changePercent24Hr", "float">>,
          <<"vwap24Hr", "float">> >>

cols_to_round(p) ==
  IF p = "timeseries" THEN <<"priceUsd">>
  ELSE <<"supply", "maxSupply", "marketCapUsd", "priceUsd", "changePercent24Hr", "vwap24Hr">>

transform(p, raw) ==
  IF p = "timeseries" THEN transform_ts(raw, cols_datatypes(p), cols_to_round(p))
  ELSE transform_assets(raw, cols_datatypes(p), cols_to_round(p))

\* the cleaning steps of notebook p applied to a table
clean(p, t) ==
  IF p = "timeseries" THEN clean_ts(t, cols_datatypes(p), cols_to_round(p))
  ELSE clean_assets(t, cols_datatypes(p), cols_to_round(p))

\* the four database settings
Settings == {"POSTGRES_USER", "POSTGRES_PASSWORD", "POSTGRES_HOST", "POSTGRES_DB"}
\* the check with any() in place of all()
any_set(e) == \E x \in Settings : e[x]
\* all([user, password, host, db_name])
all(e) == \A x \in Settings : e[x]

NoEngine == [tag |-> "undefined", disposed |-> FALSE, pool |-> 0, used_after_dispose |-> FALSE]
NoError == [cell |-> "", exc |-> NoExc]
NotRun == [status |-> "not_run", exc |-> NoExc, failed |-> "", steps |-> <<>>]
Did(e) == e \in Range(io)

Init ==
  /\ pipeline \in Pipelines
  /\ pc = "idle"
  /\ runs = 0
  /\ url_range = NoRange
  /\ raw_data_json = RawUndefined
  /\ cleaned_data_df = PyUndefined
  /\ db_engine = NoEngine
  /\ to_validate = PyUndefined
  /\ env = [x \in Settings |-> FALSE]
  /\ csv_file = NoFile
  /\ db_table = NoSqlTable
  /\ http_status = 0
  /\ transform_outcome = NotRun
  /\ error = NoError
  /\ io = <<>>
  /\ loads = 0

FirstCell == IF pipeline = "timeseries" THEN "convert_dates" ELSE "extract"

\* an exception escapes the cell: the run stops there
Fail(cell, exc) ==
  /\ pc' = "failed"
  /\ error' = [cell |-> cell, exc |-> exc]

\* Run All, in the same kernel or after a kernel restart
StartRun ==
  /\ pc \in {"idle", "done", "failed"}
  /\ runs < MaxRuns
  /\ runs' = runs + 1
  /\ pc' = FirstCell
  /\ http_status' = 0
  /\ transform_outcome' = NotRun
  /\ error' = NoError
  /\ io' = <<>>
  /\ \E restart \in BOOLEAN :
       IF restart
       THEN /\ url_range' = NoRange
            /\ raw_data_json' = RawUndefined
            /\ cleaned_data_df' = PyUndefined
            /\ db_engine' = NoEngine
            /\ to_validate' = PyUndefined
            /\ env' = [x \in Settings |-> FALSE]
       ELSE UNCHANGED << url_range, raw_data_json, cleaned_data_df, db_engine,
                         to_validate, env >>
  /\ UNCHANGED << pipeline, csv_file, db_table, loads >>

\* the start_date_str and end_date_str literals of the cell: the notebook's
\* own, or one that does not match '%Y-%m-%d %H:%M:%S'
StartDateInputs == {"2023-01-01 12:00:00", "2023-01-01"}
EndDateInputs == {"2024-05-31 12:00:00", "31/05/2024 12:00:00"}

\* cell: convert_to_unix_milliseconds, its call and the URL (time series);
\* unpacking the None of a failed conversion raises TypeError
ConvertDates ==
  /\ pc = "convert_dates"
  /\ \E start_date_str \in StartDateInputs, end_date_str \in EndDateInputs :
       LET r == convert_to_unix_milliseconds(start_date_str, end_date_str) IN
       IF r.defined
       THEN /\ url_range' = r
            /\ pc' = "extract"
            /\ UNCHANGED error
       ELSE /\ Fail("convert_dates", Exc("TypeError"))
            /\ UNCHANGED url_range
  /\ UNCHANGED << pipeline, runs, raw_data_json, cleaned_data_df, db_engine, to_validate,
                  env, csv_file, db_table, http_status, transform_outcome, io, loads >>

\* cell: raw_data_json = extract(url)
Extract ==
  /\ pc = "extract"
  /\ \E r \in Responses(pipeline) :
       LET res == extract(r) IN
       /\ http_status' = r.status_code
       /\ io' = Append(io, "GET")
       /\ IF res.raised
          THEN /\ Fail("extract", res.exc)
               /\ UNCHANGED raw_data_json
          ELSE /\ raw_data_json' = res.val
               /\ pc' = "visualize"
               /\ UNCHANGED error
  /\ UNCHANGED << pipeline, runs, url_range, cleaned_data_df, db_engine, to_validate,
                  env, csv_file, db_table, transform_outcome, loads >>

\* cell: print the keys, show the JSON in a widget
Visualize ==
  /\ pc = "visualize"
  /\ IF raw_data_json.tag = "dict"
     THEN pc' = "explore" /\ UNCHANGED error
     ELSE Fail("visualize", Exc("NameError"))
  /\ UNCHANGED << pipeline, runs, url_range, raw_data_json, cleaned_data_df, db_engine,
                  to_validate, env, csv_file, db_table, http_status, transform_outcome, io, loads >>

\* cell: len(values[0]) and len(values[0][0]) of the decoded body
ExploreError(raw) ==
  CASE raw.shape \in {"no_data", "null_data"} -> Exc("TypeError")
    [] raw.shape = "ok" /\ raw.data = <<>> -> Exc("IndexError")
    [] OTHER -> NoExc

Explore ==
  /\ pc = "explore"
  /\ IF ExploreError(raw_data_json.raw) = NoExc
     THEN pc' = "transform" /\ UNCHANGED error
     ELSE Fail("explore", ExploreError(raw_data_json.raw))
  /\ UNCHANGED << pipeline, runs, url_range, raw_data_json, cleaned_data_df, db_engine,
                  to_validate, env, csv_file, db_table, http_status, transform_outcome, io, loads >>

\* cell: try: cleaned_data_df = transform(...)  except: print(...)
Transform ==
  /\ pc = "transform"
  /\ LET r == transform(pipeline, raw_data_json.raw) IN
     /\ transform_outcome' =
          [status |-> IF r.raised THEN "raised"
                      ELSE IF r.val.tag = "None" THEN "returned_None" ELSE "returned_df",
           exc |-> r.exc,
           failed |-> r.failed,
           steps |-> r.steps]
     /\ cleaned_data_df' = IF r.raised THEN cleaned_data_df ELSE r.val
  /\ pc' = "inspect"
  /\ UNCHANGED << pipeline, runs, url_range, raw_data_json, db_engine, to_validate, env,
                  csv_file, db_table, http_status, error, io, loads >>

\* cells: cleaned_data_df.info() and cleaned_data_df.head()
Inspect ==
  /\ pc = "inspect"
  /\ CASE cleaned_data_df.tag = "undefined" -> Fail("inspect", Exc("NameError"))
       [] cleaned_data_df.tag = "None" -> Fail("inspect", Exc("AttributeError"))
       [] OTHER -> pc' = "to_csv" /\ UNCHANGED error
  /\ UNCHANGED << pipeline, runs, url_range, raw_data_json, cleaned_data_df, db_engine,
                  to_validate, env, csv_file, db_table, http_status, transform_outcome, io, loads >>

\* df_to_csv(df, file_name): every exception of df.to_csv is caught and
\* printed.  outcome is what the file system does with the write.
WriteOutcomes == {"written", "refused", "truncated"}
\* a df_to_csv that writes the header line only
df_to_csv_header(df, file, outcome) ==
  IF df.tag # "df" THEN file
  ELSE CASE outcome = "written" ->
              [exists |-> TRUE, table |-> [columns |-> df.df.columns, rows |-> <<>>]]
         [] outcome = "truncated" -> [exists |-> TRUE, table |-> NoTable]
         [] OTHER -> file
df_to_csv(df, file, outcome) ==
  IF df.tag # "df" THEN file
  ELSE CASE outcome = "written" -> [exists |-> TRUE, table |-> df.df]
         [] outcome = "truncated" -> [exists |-> TRUE, table |-> NoTable]
         [] OTHER -> file

\* the cell with a df_to_csv that lets the write's exception through
ToCsv_raises ==
  /\ pc = "to_csv"
  /\ IF cleaned_data_df.tag = "undefined"
     THEN /\ Fail("to_csv", Exc("NameError"))
          /\ UNCHANGED << csv_file, io >>
     ELSE \E outcome \in WriteOutcomes :
            /\ csv_file' = df_to_csv(cleaned_data_df, csv_file, outcome)
            /\ io' = Append(io, "df_to_csv")
            /\ IF outcome = "written"
               THEN pc' = "config" /\ UNCHANGED error
               ELSE Fail("to_csv", Exc("OSError"))
  /\ UNCHANGED << pipeline, runs, url_range, raw_data_json, cleaned_data_df, db_engine,
                  to_validate, env, db_table, http_status, transform_outcome, loads >>

\* cell: df_to_csv(cleaned_data_df, '<path>.csv')
ToCsv ==
  /\ pc = "to_csv"
  /\ IF cleaned_data_df.tag = "undefined"
     THEN /\ Fail("to_csv", Exc("NameError"))
          /\ UNCHANGED << csv_file, io >>
     ELSE /\ \E outcome \in WriteOutcomes :
               csv_file' = df_to_csv(cleaned_data_df, csv_file, outcome)
          /\ io' = Append(io, "df_to_csv")
          /\ pc' = "config"
          /\ UNCHANGED error
  /\ UNCHANGED << pipeline, runs, url_range, raw_data_json, cleaned_data_df, db_engine,
                  to_validate, env, db_table, http_status, transform_outcome, loads >>

\* the engine: create_engine opens nothing; a connection is opened at the
\* first use and goes back, open, to the pool; dispose closes the pool's
\* connections and leaves the engine usable.
create_db_engine == [tag |-> "engine", disposed |-> FALSE, pool |-> 0, used_after_dispose |-> FALSE]
dispose(e) == [e EXCEPT !.disposed = TRUE, !.pool = 0]
UseEngine(e, connected) ==
  [e EXCEPT !.used_after_dispose = @ \/ e.disposed,
            !.pool = IF connected THEN 1 ELSE @]

\* cell: load_dotenv, the four os.getenv, the check, create_db_engine, dispose
Config ==
  /\ pc = "config"
  /\ \E dotenv \in [Settings -> BOOLEAN] :
       /\ env' = [x \in Settings |-> env[x] \/ dotenv[x]]
       /\ IF ~all(env')
          THEN /\ Fail("config", Exc("ValueError"))
               /\ UNCHANGED << db_engine, io >>
          ELSE /\ db_engine' = dispose(create_db_engine)
               /\ io' = io \o <<"create_engine", "dispose">>
               /\ pc' = "load"
               /\ UNCHANGED error
  /\ UNCHANGED << pipeline, runs, url_range, raw_data_json, cleaned_data_df, to_validate,
                  csv_file, db_table, http_status, transform_outcome, loads >>

\* cell: load(cleaned_data_df, db_engine); to_validate = pd.read_sql(...)
DbOutcomes == {"unreachable", "lost_before_read", "ok"}
Load ==
  /\ pc = "load"
  /\ \E outcome \in DbOutcomes :
       /\ db_engine' = UseEngine(db_engine, outcome # "unreachable")
       /\ CASE outcome = "unreachable" ->
                 /\ Fail("load", Exc("OperationalError"))
                 /\ io' = Append(io, "to_sql")
                 /\ UNCHANGED << db_table, to_validate, loads >>
            [] outcome = "lost_before_read" ->
                 /\ db_table' = load(db_table, cleaned_data_df.df)
                 /\ Fail("load", Exc("OperationalError"))
                 /\ io' = io \o <<"to_sql", "read_sql">>
                 /\ loads' = loads + 1
                 /\ UNCHANGED to_validate
            [] OTHER ->
                 /\ db_table' = load(db_table, cleaned_data_df.df)
                 /\ loads' = loads + 1
                 /\ to_validate' = PyDf(read_sql(db_table'))
                 /\ io' = io \o <<"to_sql", "read_sql">>
                 /\ pc' = "done"
                 /\ UNCHANGED error
  /\ UNCHANGED << pipeline, runs, url_range, raw_data_json, cleaned_data_df, env, csv_file,
                  http_status, transform_outcome >>

Next ==
  \/ StartRun
  \/ ConvertDates
  \/ Extract
  \/ Visualize
  \/ Explore
  \/ Transform
  \/ Inspect
  \/ ToCsv
  \/ Config
  \/ Load

Spec == Init /\ [][Next]_vars

\* ------------------------------------------ transform on its own inputs
\* The kernel stands at the transform cell of a first run, with any body of
\* up to MaxRecords records as raw_data_json.
InitClean ==
  /\ pipeline \in Pipelines
  /\ pc = "transform"
  /\ runs = 1
  /\ url_range = IF pipeline = "timeseries"
                 THEN convert_to_unix_milliseconds("2023-01-01 12:00:00", "2024-05-31 12:00:00")
                 ELSE NoRange
  /\ raw_data_json \in {PyRaw(b) : b \in Bodies(pipeline)}
  /\ cleaned_data_df = PyUndefined
  /\ db_engine = NoEngine
  /\ to_validate = PyUndefined
  /\ env = [x \in Settings |-> FALSE]
  /\ csv_file = NoFile
  /\ db_table = NoSqlTable
  /\ http_status = 200
  /\ transform_outcome = NotRun
  /\ error = NoError
  /\ io = <<"GET">>
  /\ loads = 0

NextClean == Transform

SpecClean == InitClean /\ [][NextClean]_vars

\* ------------------------------------------------ load on its own inputs
\* The kernel stands at the load cell with any table transform returns for
\* a body of up to MaxRecords records; the database holds no table or the
\* table of an earlier load.
Cleanable(p, b) ==
  /\ ExploreError(b) = NoExc
  /\ ~transform(p, b).raised
  /\ transform(p, b).val.tag = "df"

PriorTables(p) ==
  {NoSqlTable} \cup
    {load(NoSqlTable, transform(p, b).val.df) : b \in {x \in SampleBodies(p) : Cleanable(p, x)}}

InitLoad ==
  /\ pipeline \in Pipelines
  /\ pc = "load"
  /\ runs = 1
  /\ url_range = IF pipeline = "timeseries"
                 THEN convert_to_unix_milliseconds("2023-01-01 12:00:00", "2024-05-31 12:00:00")
                 ELSE NoRange
  /\ raw_data_json \in {PyRaw(b) : b \in {x \in Bodies(pipeline) : Cleanable(pipeline, x)}}
  /\ cleaned_data_df = transform(pipeline, raw_data_json.raw).val
  /\ db_engine = dispose(create_db_engine)
  /\ to_validate = PyUndefined
  /\ env = [x \in Settings |-> TRUE]
  /\ csv_file = df_to_csv(cleaned_data_df, NoFile, "written")
  /\ db_table \in PriorTables(pipeline)
  /\ http_status = 200
  /\ transform_outcome = [status |-> "returned_df", exc |-> NoExc, failed |-> "",
                          steps |-> transform(pipeline, raw_data_json.raw).steps]
  /\ error = NoError
  /\ io = <<"GET", "df_to_csv", "create_engine", "dispose">>
  /\ loads = IF db_table.exists THEN 1 ELSE 0

NextLoad == Load

SpecLoad == InitLoad /\ [][NextLoad]_vars

\* ================================================================ claims
CleanerSteps == {"coercion", "date", "prune", "fillna", "round"}
CleanFailed == transform_outcome.failed \in CleanerSteps
MissingSetting == \E x \in Settings : ~env[x]
ConfigRan ==
  \/ pc \in {"load", "done"}
  \/ pc = "failed" /\ error.cell \in {"config", "load"}
GetCount == Cardinality({i \in DOMAIN io : io[i] = "GET"})

\* C1 (as claimed): when a step of the Clean stage failed in a run, neither
\* df_to_csv nor load is executed afterwards in that run and the run does not
\* end as a success.
C1_CleanFailureStopsSinks ==
  CleanFailed => (~Did("df_to_csv") /\ ~Did("to_sql") /\ pc # "done")

\* C2 (as claimed): on a status other than 200 extract fails with a
\* FetchError carrying that status code, after a single GET, with no result.
C2_FetchErrorCarriesStatus ==
  (http_status \notin {0, 200}) =>
     /\ pc = "failed"
     /\ error.cell = "extract"
     /\ error.exc.type = "FetchError"
     /\ error.exc.status = http_status
     /\ GetCount = 1

\* C3: in a run whose GET returned 500 no later stage happens: transform is
\* not run, no CSV is written, the table store is not touched.
C3_Http500StopsRun ==
  (http_status = 500) =>
     /\ pc = "failed"
     /\ error.cell = "extract"
     /\ transform_outcome = NotRun
     /\ ~Did("df_to_csv")
     /\ ~Did("to_sql")
     /\ ~Did("read_sql")

C3_Witness ==
  /\ http_status = 500
  /\ pc = "failed"
  /\ cleaned_data_df.tag = "df"
  /\ db_table.exists

\* C4 (as claimed): with a database setting missing the run stops with a
\* configuration error before any network request, file write or database
\* activity.
C4_ConfigCheckedBeforeAnyIO ==
  (ConfigRan /\ MissingSetting) =>
     /\ pc = "failed"
     /\ error.cell = "config"
     /\ io = <<>>

\* C4 (amended): with a database setting missing the run stops with the
\* ValueError of the configuration cell before any database activity; the
\* GET and the df_to_csv call of that run have already been executed.
C4_ConfigCheckedBeforeDb ==
  (ConfigRan /\ MissingSetting) =>
     /\ pc = "failed"
     /\ error.cell = "config"
     /\ error.exc.type = "ValueError"
     /\ ~Did("create_engine")
     /\ ~Did("to_sql")
     /\ ~Did("read_sql")
     /\ Did("GET")
     /\ Did("df_to_csv")

C4_Witness ==
  /\ pc = "failed"
  /\ error.cell = "config"
  /\ MissingSetting
  /\ io = <<"GET", "df_to_csv">>

\* C5 (as claimed): a run that used the database has released its
\* connection by the end of the run and never used the engine after the
\* release.
C5_ConnectionReleasedAfterUse ==
  (pc \in {"done", "failed"} /\ Did("to_sql")) =>
     /\ db_engine.pool = 0
     /\ ~db_engine.used_after_dispose

\* two cells hold the same value: equal, or both a missing value
SameValue(a, b) == a = b \/ (IsNull(a) /\ IsNull(b))

LoadSucceeds == pc = "load" /\ loads' = loads + 1
C7_ReplaceSemantics ==
  [][LoadSucceeds =>
       /\ db_table'.exists
       /\ db_table'.columns = cleaned_data_df.df.columns
       /\ Len(db_table'.rows) = Len(cleaned_data_df.df.rows)
       /\ \A i \in DOMAIN cleaned_data_df.df.rows :
            \A c \in Range(cleaned_data_df.df.columns) :
              db_table'.rows[i][c] =
                (IF IsNull(cleaned_data_df.df.rows[i][c]) THEN SqlNull
                 ELSE cleaned_data_df.df.rows[i][c])
       /\ (db_table.exists /\ SqlRows(cleaned_data_df.df) = db_table.rows
                            /\ db_table.columns = cleaned_data_df.df.columns
             => db_table' = db_table)]_vars

C7_Witness ==
  /\ pc = "done"
  /\ runs = 2
  /\ loads = 2
  /\ csv_file.exists
  /\ csv_file.table # NoTable
  /\ csv_file.table # cleaned_data_df.df
  /\ db_table.rows = SqlRows(cleaned_data_df.df)

\* C8 (as claimed): when a step of the Cleaner fails, transform aborts with
\* one ETLError that names the failing step and returns no table.
C8_CleanFailureRaisesETLError ==
  CleanFailed =>
     /\ transform_outcome.status = "raised"
     /\ transform_outcome.exc.type = "ETLError"
     /\ transform_outcome.exc.stage = transform_outcome.failed

\* a cell that float() / int() rejects
Unparseable(cell, datatype) ==
  \/ cell.k = "str" /\ datatype = "float" /\ cell.s \notin FloatStrings
  \/ cell.k = "str" /\ datatype = "int" /\ cell.s \notin IntStrings
  \/ cell.k = "null" /\ datatype = "int"
UnparseableCell ==
  /\ transform_outcome.status # "not_run"
  /\ raw_data_json.raw.shape = "ok"
  /\ \E i \in DOMAIN raw_data_json.raw.data :
       \E j \in DOMAIN cols_datatypes(pipeline) :
         /\ HasKey(raw_data_json.raw.data[i], cols_datatypes(pipeline)[j][1])
         /\ Unparseable(ValueOf(raw_data_json.raw.data[i], cols_datatypes(pipeline)[j][1]),
                        cols_datatypes(pipeline)[j][2])

\* C9 (as claimed): an unparseable cell of a typeSpec column makes the
\* clean fail with a CoercionError naming the column and the row index.
C9_CoercionErrorNamesCell ==
  UnparseableCell =>
     /\ transform_outcome.status = "raised"
     /\ transform_outcome.exc.type = "CoercionError"
     /\ transform_outcome.exc.col # NoCol
     /\ transform_outcome.exc.row # NoRow

\* C9 (amended): an unparseable cell of a typeSpec column makes transform
\* raise, in the coercion step, the ValueError or TypeError of astype, which
\* names neither column nor row; no table is returned.
C9_UnparseableCellRaises ==
  UnparseableCell =>
     /\ transform_outcome.status = "raised"
     /\ transform_outcome.failed = "coercion"
     /\ transform_outcome.exc.type \in {"ValueError", "TypeError"}
     /\ transform_outcome.exc.col = NoCol
     /\ transform_outcome.exc.row = NoRow

C9_Witness ==
  /\ UnparseableCell
  /\ transform_outcome.status = "raised"
  /\ Len(raw_data_json.raw.data) >= 2
  /\ ~Unparseable(ValueOf(raw_data_json.raw.data[1], cols_datatypes(pipeline)[1][1]),
                  cols_datatypes(pipeline)[1][2])

\* C10 (as claimed): in the time-series pipeline a malformed date cell makes
\* the date step fail with a DateParseError.
C10_BadDateRaises ==
  (pipeline = "timeseries" /\ transform_outcome.failed = "date") =>
     /\ transform_outcome.status = "raised"
     /\ transform_outcome.exc.type = "DateParseError"

\* the raw value of field c in record i of the response (NaN when the record
\* has no such key)
RawCell(i, c) ==
  IF HasKey(raw_data_json.raw.data[i], c) THEN ValueOf(raw_data_json.raw.data[i], c) ELSE NaN
Cleaned == transform_outcome.status = "returned_df" /\ cleaned_data_df.tag = "df"

\* C11: in every table the asset-listing transform returns, each row's
\* maxSupply is 0.0 where the raw value was null or absent and the rounded
\* float of the raw value otherwise, and its explorer is "not available"
\* where the raw value was null or absent and the raw string otherwise; no
\* cell of these two columns is null.
C11_NullsSubstituted ==
  (pipeline = "assets" /\ Cleaned) =>
     /\ Len(cleaned_data_df.df.rows) = Len(raw_data_json.raw.data)
     /\ \A i \in DOMAIN cleaned_data_df.df.rows :
          /\ ~IsNull(cleaned_data_df.df.rows[i]["maxSupply"])
          /\ ~IsNull(cleaned_data_df.df.rows[i]["explorer"])
          /\ cleaned_data_df.df.rows[i]["maxSupply"] =
               (IF IsNull(RawCell(i, "maxSupply")) THEN FltV(0)
                ELSE FltV(Round2(FloatOf(RawCell(i, "maxSupply").s))))
          /\ cleaned_data_df.df.rows[i]["explorer"] =
               (IF IsNull(RawCell(i, "explorer")) THEN StrV("not available")
                ELSE RawCell(i, "explorer"))

C11_Witness ==
  /\ pipeline = "assets"
  /\ Cleaned
  /\ Len(cleaned_data_df.df.rows) >= 2
  /\ \A i \in DOMAIN raw_data_json.raw.data :
       IsNull(RawCell(i, "maxSupply")) /\ IsNull(RawCell(i, "explorer"))
  /\ \E i \in DOMAIN raw_data_json.raw.data : HasKey(raw_data_json.raw.data[i], "explorer")

\* the cleaning steps applied once more to the table transform returned
CleanAgain == clean(pipeline, cleaned_data_df.df)
\* coercion and rounding alone applied once more to that table
CoerceRoundAgain ==
  LET conv == convert_cols_cat_to_num(cleaned_data_df.df, cols_datatypes(pipeline)) IN
  IF conv.raised THEN conv ELSE RoundColumns(conv.val.df, cols_to_round(pipeline))

\* C12 (as claimed): applying the cleaning steps again to a table transform
\* returned succeeds and gives the same table, in both pipelines.
C12_CleanIdempotent ==
  Cleaned => (~CleanAgain.raised /\ CleanAgain.val = cleaned_data_df)

\* C12 (amended): coercion and rounding applied again to a returned table
\* give the same table in both pipelines, and so does the whole step
\* sequence of the asset-listing pipeline; the whole step sequence of the
\* time-series pipeline gives None the second time, because drop_columns
\* no longer finds the time column.
C12_CoerceRoundIdempotent ==
  Cleaned =>
     /\ ~CoerceRoundAgain.raised
     /\ CoerceRoundAgain.val = cleaned_data_df
     /\ pipeline = "assets" => (~CleanAgain.raised /\ CleanAgain.val = cleaned_data_df)
     /\ pipeline = "timeseries" =>
          /\ ~CleanAgain.raised
          /\ CleanAgain.val = PyNone
          /\ CleanAgain.failed = "prune"
          /\ convert_iso_date_to_datetime(cleaned_data_df, "date") = cleaned_data_df

C12_Witness ==
  /\ pipeline = "timeseries"
  /\ Cleaned
  /\ Len(cleaned_data_df.df.rows) >= 2
  /\ \E i \in DOMAIN cleaned_data_df.df.rows :
       cleaned_data_df.df.rows[i]["priceUsd"].k = "float"
  /\ CleanAgain.val = PyNone

\* some record of the response holds a non-numeric string in a column of
\* cols_to_round, and transform has been called on it
NonNumericRoundCell ==
  /\ transform_outcome.status # "not_run"
  /\ raw_data_json.raw.shape = "ok"
  /\ \E i \in DOMAIN raw_data_json.raw.data :
       \E j \in DOMAIN cols_to_round(pipeline) :
         /\ RawCell(i, cols_to_round(pipeline)[j]).k = "str"
         /\ RawCell(i, cols_to_round(pipeline)[j]).s \notin FloatStrings

\* C13 (as claimed): a non-numeric value in a cols_to_round column makes
\* the clean fail in the coercion step with a CoercionError.
C13_CoercionErrorNotRoundingError ==
  NonNumericRoundCell =>
     /\ transform_outcome.status = "raised"
     /\ transform_outcome.failed = "coercion"
     /\ transform_outcome.exc.type = "CoercionError"

\* C13 (amended): a non-numeric value in a cols_to_round column makes
\* transform raise in the coercion step (the ValueError or TypeError of
\* astype); the rounding step is not reached and no table is returned.
C13_FailsInCoercionNotRounding ==
  NonNumericRoundCell =>
     /\ transform_outcome.status = "raised"
     /\ transform_outcome.failed = "coercion"
     /\ transform_outcome.exc.type \in {"ValueError", "TypeError"}

C13_Witness ==
  /\ NonNumericRoundCell
  /\ pipeline = "assets"
  /\ transform_outcome.failed = "coercion"
  /\ transform_outcome.exc.type = "ValueError"

\* what pd.json_normalize gives for the response transform was called on
Normalized == json_normalize(raw_data_json.raw)
Transformed == transform_outcome.status # "not_run"

\* C14: for a response whose data field is a list of records, normalization
\* gives a table with one row per record, whose columns are the union of the
\* records' keys; every row has all of these columns, holding the record's
\* value where the record has the key and a null where it has not.
C14_NormalizeRowsAndColumns ==
  (Transformed /\ raw_data_json.raw.shape = "ok") =>
     /\ ~Normalized.raised
     /\ Normalized.val.tag = "df"
     /\ Len(Normalized.val.df.rows) = Len(raw_data_json.raw.data)
     /\ Range(Normalized.val.df.columns) =
          UNION {Range(Keys(raw_data_json.raw.data[i])) : i \in DOMAIN raw_data_json.raw.data}
     /\ Cardinality(Range(Normalized.val.df.columns)) = Len(Normalized.val.df.columns)
     /\ \A i \in DOMAIN raw_data_json.raw.data :
          /\ DOMAIN Normalized.val.df.rows[i] = Range(Normalized.val.df.columns)
          /\ \A c \in Range(Normalized.val.df.columns) :
               Normalized.val.df.rows[i][c] =
                 (IF HasKey(raw_data_json.raw.data[i], c)
                  THEN ValueOf(raw_data_json.raw.data[i], c) ELSE NaN)

C14_Witness ==
  /\ Transformed
  /\ raw_data_json.raw.shape = "ok"
  /\ Len(raw_data_json.raw.data) >= 2
  /\ Range(Keys(raw_data_json.raw.data[1])) # Range(Keys(raw_data_json.raw.data[2]))
  /\ Range(Keys(raw_data_json.raw.data[2])) \ Range(Keys(raw_data_json.raw.data[1])) # {}

\* the df_to_csv cell runs on a table and the file does not end up holding it
WriteFails ==
  /\ pc = "to_csv"
  /\ cleaned_data_df.tag = "df"
  /\ csv_file' # [exists |-> TRUE, table |-> cleaned_data_df.df]

\* C15 (as claimed): when the write of the CSV file fails, df_to_csv fails
\* with an IOError that reaches its caller: the cell stops the run.
C15_WriteFailureRaisesIOError ==
  [][WriteFails => (pc' = "failed" /\ error'.exc.type = "IOError")]_vars

\* C16 (as claimed): when a date string does not match the format (the
\* only way the conversion cell can stop the run),
\* convert_to_unix_milliseconds fails with a FormatError, and no URL is
\* built from a missing start/end pair.
C16_BadDateStringRaisesFormatError ==
  (pc = "failed" /\ error.cell = "convert_dates") =>
     /\ error.exc.type = "FormatError"
     /\ ~Did("GET")

\* a time-series response as the endpoint documents it: a list of records,
\* each with a numeric priceUsd string, a time and an ISO-8601 date string
WellFormedTs ==
  /\ pipeline = "timeseries"
  /\ Transformed
  /\ raw_data_json.raw.shape = "ok"
  /\ \A i \in DOMAIN raw_data_json.raw.data :
       /\ Range(Keys(raw_data_json.raw.data[i])) = {"priceUsd", "time", "date"}
       /\ RawCell(i, "priceUsd").k = "str" /\ RawCell(i, "priceUsd").s \in FloatStrings
       /\ RawCell(i, "date").k = "str" /\ RawCell(i, "date").s \in IsoStrings

\* the table holds, row by row, the rounded price and the calendar date of
\* the records, in the columns of the records without time
TsCleanedAsSpecified ==
  /\ Cleaned
  /\ cleaned_data_df.df.columns = <<"priceUsd", "date">>
  /\ Len(cleaned_data_df.df.rows) = Len(raw_data_json.raw.data)
  /\ \A i \in DOMAIN raw_data_json.raw.data :
       /\ DOMAIN cleaned_data_df.df.rows[i] = {"priceUsd", "date"}
       /\ cleaned_data_df.df.rows[i]["priceUsd"] = FltV(Round2(FloatOf(RawCell(i, "priceUsd").s)))
       /\ cleaned_data_df.df.rows[i]["date"] = DateV(IsoDateOf(RawCell(i, "date").s))
       /\ RawCell(i, "priceUsd") = StrV("16708.523")
            => cleaned_data_df.df.rows[i]["priceUsd"] = FltV(16708520)
       /\ RawCell(i, "date") = StrV("2023-01-02T00:00:00.000Z")
            => cleaned_data_df.df.rows[i]["date"] = DateV("2023-01-02")

\* C17 (as claimed): for every well-formed time-series response transform
\* returns the table of rounded prices and calendar dates, one row per
\* record, without the time column.
C17_TsCleanedTable == WellFormedTs => TsCleanedAsSpecified

\* C17 (amended): the same for every well-formed time-series response with
\* at least one record; for an empty list of records transform returns
\* None, because the normalized table has no date column.
C17_TsCleanedTableNonEmpty ==
  WellFormedTs =>
     IF raw_data_json.raw.data # <<>>
     THEN TsCleanedAsSpecified
     ELSE /\ transform_outcome.status = "returned_None"
          /\ transform_outcome.failed = "date"

C17_Witness ==
  /\ WellFormedTs
  /\ TsCleanedAsSpecified
  /\ Len(raw_data_json.raw.data) = 2
  /\ RawCell(1, "priceUsd") = StrV("16708.523")
  /\ RawCell(1, "date") = StrV("2023-01-02T00:00:00.000Z")
  /\ RawCell(2, "priceUsd") # RawCell(1, "priceUsd")

\* the response has no data field, or its data field is null or a string
NoRecordSequence == raw_data_json.raw.shape \in {"no_data", "null_data", "string_data"}

\* C18 (as claimed): when the response has no data field or the field is
\* not a sequence of records, normalization fails with a SchemaError and
\* transform produces no table.
C18_BadShapeRaisesSchemaError ==
  (Transformed /\ NoRecordSequence) =>
     /\ Normalized.raised
     /\ Normalized.exc.type = "SchemaError"
     /\ transform_outcome.status = "raised"
     /\ transform_outcome.failed = "normalize"

\* the step at position i of the call ran before the step at position j
Precedes(a, b) ==
  \A i, j \in DOMAIN transform_outcome.steps :
    (transform_outcome.steps[i] = a /\ transform_outcome.steps[j] = b) => i < j
Ranstep(a) == a \in Range(transform_outcome.steps)

C20_SinksGetSameTable ==
  [][/\ pc \in {"inspect", "to_csv", "config", "load"} => cleaned_data_df' = cleaned_data_df
     /\ (pc = "to_csv" /\ cleaned_data_df.tag = "df") =>
          \/ csv_file' = csv_file
          \/ csv_file' = [exists |-> TRUE, table |-> cleaned_data_df.df]
          \/ csv_file' = [exists |-> TRUE, table |-> NoTable]
     /\ LoadSucceeds =>
          /\ db_table'.columns = cleaned_data_df.df.columns
          /\ db_table'.rows = SqlRows(cleaned_data_df.df)]_vars

C20_Witness ==
  /\ pc = "done"
  /\ runs = 1
  /\ Did("df_to_csv")
  /\ Did("to_sql")
  /\ Len(cleaned_data_df.df.rows) >= 2
  /\ csv_file = [exists |-> TRUE, table |-> cleaned_data_df.df]
  /\ db_table.columns = cleaned_data_df.df.columns
  /\ db_table.rows = SqlRows(cleaned_data_df.df)

\* the helper results of the time-series transform for the response it was
\* called on (defined when normalization and coercion went through)
TsConverted == convert_cols_cat_to_num(Normalized.val.df, cols_datatypes("timeseries"))
TsDated == convert_iso_date_to_datetime(TsConverted.val, "date")
TsPruned == drop_columns(TsDated, <<"time">>)
TsRounded == round_to_two_decimal_places(TsPruned, cols_to_round("timeseries"))

\* the time-series transform got past coercion on a table on which a helper
\* fails: a date string that does not parse, or no date, time or priceUsd
\* column
TsHelperFails ==
  /\ pipeline = "timeseries"
  /\ Transformed
  /\ ~Normalized.raised
  /\ ~TsConverted.raised
  /\ \/ \E i \in DOMAIN raw_data_json.raw.data :
          RawCell(i, "date").k = "str" /\ RawCell(i, "date").s \notin IsoStrings
     \/ \E c \in {"date", "time", "priceUsd"} : ~HasColumn(Normalized.val.df, c)

C22_CsvSinkNeverRaises ==
  [][/\ (pc = "to_csv" /\ cleaned_data_df.tag # "undefined") =>
          /\ pc' = "config"
          /\ error' = error
          /\ io' = Append(io, "df_to_csv")
     /\ \A outcome \in WriteOutcomes : df_to_csv(PyNone, csv_file, outcome) = csv_file]_vars

\* a run whose CSV write failed went on to load the table
C22_Witness ==
  /\ pc = "done"
  /\ runs = 1
  /\ ~csv_file.exists
  /\ Did("df_to_csv")
  /\ Did("to_sql")
  /\ db_table.exists

\* the table the rounding step of the call was given (defined when the call
\* returned a table)
AssetsConverted == convert_cols_cat_to_num(Normalized.val.df, cols_datatypes("assets"))
AssetsFilled ==
  fillna(fillna(AssetsConverted.val.df, "maxSupply", FltV(0)).val.df,
         "explorer", StrV("not available")).val.df
BeforeRounding == IF pipeline = "timeseries" THEN TsPruned.df ELSE AssetsFilled

\* C23: the table transform returns has the columns, in the same order, and
\* the number of rows of the table its rounding step was given; row by row,
\* every cell of a column outside cols_to_round is the cell it was, and a
\* cell of a cols_to_round column is the rounded value of the cell it was.
C23_RoundingFrame ==
  Cleaned =>
     /\ cleaned_data_df.df.columns = BeforeRounding.columns
     /\ Len(cleaned_data_df.df.rows) = Len(BeforeRounding.rows)
     /\ \A i \in DOMAIN BeforeRounding.rows :
          \A c \in Range(BeforeRounding.columns) :
            cleaned_data_df.df.rows[i][c] =
              (IF c \in Range(cols_to_round(pipeline))
               THEN RoundCell(BeforeRounding.rows[i][c])
               ELSE BeforeRounding.rows[i][c])

C23_Witness ==
  /\ pipeline = "assets"
  /\ Cleaned
  /\ Len(cleaned_data_df.df.rows) >= 2
  /\ \E i \in DOMAIN cleaned_data_df.df.rows :
       /\ cleaned_data_df.df.rows[i]["volumeUsd24Hr"] = FltV(2346)
       /\ cleaned_data_df.df.rows[i]["rank"].k = "int"
       /\ BeforeRounding.rows[i]["priceUsd"] = FltV(2346)
       /\ cleaned_data_df.df.rows[i]["priceUsd"] = FltV(2350)

\* what the coercion step of the call gave (defined when normalization went
\* through)
Converted == IF pipeline = "timeseries" THEN TsConverted ELSE AssetsConverted
TypeOf(c) ==
  cols_datatypes(pipeline)[CHOOSE j \in DOMAIN cols_datatypes(pipeline) :
                             cols_datatypes(pipeline)[j][1] = c][2]
Typed(c) == \E j \in DOMAIN cols_datatypes(pipeline) : cols_datatypes(pipeline)[j][1] = c

\* C24: coercion raises only for an unparseable cell, never for a
\* cols_datatypes column the table lacks; when it returns, the table has
\* the columns and the number of rows it had, every cell of a column
\* outside cols_datatypes is the cell it was, and every cell of a
\* cols_datatypes column the table has is the cast of the cell it was.
C24_CoercionSkipsAbsentColumns ==
  (Transformed /\ ~Normalized.raised) =>
     /\ Converted.raised <=> UnparseableCell
     /\ ~Converted.raised =>
          /\ Converted.val.df.columns = Normalized.val.df.columns
          /\ Len(Converted.val.df.rows) = Len(Normalized.val.df.rows)
          /\ \A i \in DOMAIN Normalized.val.df.rows :
               /\ DOMAIN Converted.val.df.rows[i] = Range(Normalized.val.df.columns)
               /\ \A c \in Range(Normalized.val.df.columns) :
                    Converted.val.df.rows[i][c] =
                      (IF Typed(c) THEN AstypeCell(Normalized.val.df.rows[i][c], TypeOf(c))
                       ELSE Normalized.val.df.rows[i][c])

C24_Witness ==
  /\ pipeline = "assets"
  /\ Transformed
  /\ ~Normalized.raised
  /\ ~Converted.raised
  /\ ~HasColumn(Normalized.val.df, "maxSupply")
  /\ Len(Converted.val.df.rows) >= 1
  /\ Normalized.val.df.rows[1]["rank"] = StrV("2")
  /\ Converted.val.df.rows[1]["rank"] = IntV(2)

====
